---- MODULE Spec2Model ----
(***************************************************************************)
(* Model of the batch delete of pkg/cmd/task/delete.go (deleteTask, with   *)
(* the optional cascade to TaskRuns) and of its cascade-free twin          *)
(* deleteTriggerTemplates.  One run of the command is one behaviour: the   *)
(* arguments, the flags and the content of the namespace are chosen in     *)
(* Init, and every call against the clientset is one step.  The clientset  *)
(* behaves as the fake clientset of the tests: Delete of an object that    *)
(* exists removes it unless an error is injected, Delete of a missing      *)
(* object answers not-found, List answers the objects matching the label   *)
(* selector unless an error is injected.                                   *)
(***************************************************************************)
EXTENDS Integers, Sequences, FiniteSets, TLC

\* ------------------------------------------------------------ bounds
MaxNames == 3        \* longest argument list
NumTasks == 2        \* distinct resource names a run may mention
NumRuns  == 2        \* TaskRuns that may exist in the namespace

AllTaskNames == <<"a", "b", "c", "d">>
AllRunNames  == <<"r1", "r2", "r3", "r4">>
TaskNames == {AllTaskNames[k] : k \in 1..NumTasks}
RunNames  == {AllRunNames[k] : k \in 1..NumRuns}
NoName    == "-"

\* ------------------------------------------------------------ state
VARIABLES
    cmd,                \* "task" (deleteTask) or "triggertemplate"
    clientOk,           \* whether p.Clients() succeeds
    DeleteAll,          \* opts.DeleteAll (--all)
    tNames,             \* tNames / ttNames: the arguments, in order
    tasks,              \* names of the Tasks (TriggerTemplates) in the namespace
    taskRunStore,       \* TaskRuns in the namespace: [name, task (label tekton.dev/task)]
    pc,                 \* position in the function
    i,                  \* index of the outer range loop
    taskRuns,           \* taskRuns.Items of the current iteration
    j,                  \* index of the inner range loop
    errs,               \* errs
    successfulTasks,    \* successfulTasks / success
    successfulTaskRuns, \* successfulTaskRuns
    stdout,             \* lines written to s.Out
    stderr,             \* lines written to s.Err
    ret,                \* returned error (<<>> is nil)
    log                 \* calls received by the clientset, in order

vars == <<cmd, clientOk, DeleteAll, tNames, tasks, taskRunStore, pc, i,
          taskRuns, j, errs, successfulTasks, successfulTaskRuns, stdout,
          stderr, ret, log>>

inputs == <<cmd, clientOk, DeleteAll, tNames>>

\* ------------------------------------------------------------ helpers
Last(s) == s[Len(s)]

\* all orders in which the store may answer the elements of S
Perms(S) ==
    {s \in [1..Cardinality(S) -> S] : \A x, y \in 1..Cardinality(S) : x # y => s[x] # s[y]}

\* fmt.Errorf("failed to delete <kind> %q: %s", name, err)
DeleteErr(kind, name, cause) ==
    [msg |-> "failed to delete %q: %s", kind |-> kind, name |-> name, cause |-> cause]

\* an error of the clientset passed on as it is
RawErr(cause) ==
    [msg |-> "%s", kind |-> NoName, name |-> NoName, cause |-> cause]

ClientErr ==
    [msg |-> "failed to create tekton client", kind |-> NoName, name |-> NoName, cause |-> NoName]

NilErr ==
    [msg |-> "nil", kind |-> NoName, name |-> NoName, cause |-> NoName]

\* multierr.Combine: the non-nil errors, nil (<<>>) when there is none
IsNonNil(e) == e # NilErr
Combine(es) == SelectSeq(es, IsNonNil)

\* names.QuotedList: every name quoted, joined by ", "
RECURSIVE QuotedList(_)
QuotedList(names) ==
    IF names = <<>> THEN <<>>
    ELSE IF Len(names) = 1 THEN <<"'", names[1], "'">>
    ELSE QuotedList(SubSeq(names, 1, Len(names) - 1)) \o <<", ", "'", Last(names), "'">>

\* fmt.Sprintf("tekton.dev/task=%s", tName)
LabelSelector(tName) == [key |-> "tekton.dev/task", value |-> tName]

\* the TaskRuns a List with this selector matches
Matching(sel) == {r \in taskRunStore : sel.key = "tekton.dev/task" /\ r.task = sel.value}

PrimaryKind == IF cmd = "task" THEN "task" ELSE "triggertemplate"
PrimaryOp   == IF cmd = "task" THEN "DeleteTask" ELSE "DeleteTriggerTemplate"

Call(op, name, ok, owner, items) ==
    [op |-> op, name |-> name, ok |-> ok, owner |-> owner, items |-> items]

\* position after iteration k of the outer loop
AfterIteration(k) == IF k + 1 > Len(tNames) THEN "report" ELSE "primary"

\* ------------------------------------------------------------ Init
Init ==
    /\ cmd \in {"task", "triggertemplate"}
    /\ clientOk \in BOOLEAN
    /\ DeleteAll \in (IF cmd = "task" THEN BOOLEAN ELSE {FALSE})
    /\ tNames \in UNION {[1..n -> TaskNames] : n \in 1..MaxNames}
    /\ tasks \in SUBSET TaskNames
    /\ \E lab \in [RunNames -> TaskNames \cup {NoName}] :
          taskRunStore = IF cmd = "task"
                         THEN {[name |-> r, task |-> lab[r]] : r \in {x \in RunNames : lab[x] # NoName}}
                         ELSE {}
    /\ pc = "start"
    /\ i = 0
    /\ taskRuns = <<>>
    /\ j = 0
    /\ errs = <<>>
    /\ successfulTasks = <<>>
    /\ successfulTaskRuns = <<>>
    /\ stdout = <<>>
    /\ stderr = <<>>
    /\ ret = <<>>
    /\ log = <<>>

\* ------------------------------------------------------------ actions
\* variant: the error is printed but not kept
AddPrintErr_PrintOnly(err) ==
    /\ errs' = errs
    /\ stderr' = Append(stderr, err)

\* addPrintErr: append to errs and print on s.Err
AddPrintErr(err) ==
    /\ errs' = Append(errs, err)
    /\ stderr' = Append(stderr, err)

\* variant: the error of p.Clients() is ignored
GetClients_IgnoreErr ==
    /\ pc = "start"
    /\ pc' = "primary"
    /\ i' = 1
    /\ ret' = ret
    /\ UNCHANGED <<inputs, tasks, taskRunStore, taskRuns, j, errs,
                   successfulTasks, successfulTaskRuns, stdout, stderr, log>>

\* cs, err := p.Clients(); if err != nil { return ... }
GetClients ==
    /\ pc = "start"
    /\ IF clientOk
       THEN /\ pc' = "primary"
            /\ i' = 1
            /\ ret' = ret
       ELSE /\ pc' = "done"
            /\ i' = i
            /\ ret' = <<ClientErr>>
    /\ UNCHANGED <<inputs, tasks, taskRunStore, taskRuns, j, errs,
                   successfulTasks, successfulTaskRuns, stdout, stderr, log>>

\* variant: break instead of continue after a failed delete
DeleteTaskFail_Abort ==
    /\ pc = "primary" /\ cmd = "task"
    /\ \E cause \in (IF tNames[i] \in tasks THEN {"forbidden"} ELSE {"notfound"}) :
          /\ AddPrintErr(DeleteErr("task", tNames[i], cause))
          /\ log' = Append(log, Call("DeleteTask", tNames[i], FALSE, NoName, <<>>))
    /\ pc' = "report"
    /\ i' = i + 1
    /\ UNCHANGED <<inputs, tasks, taskRunStore, taskRuns, j, successfulTasks,
                   successfulTaskRuns, stdout, ret>>

\* variant: a failed delete is tried once more before going on
DeleteTaskFail_Retry ==
    /\ pc = "primary" /\ cmd = "task"
    /\ \E cause \in (IF tNames[i] \in tasks THEN {"forbidden"} ELSE {"notfound"}) :
          /\ AddPrintErr(DeleteErr("task", tNames[i], cause))
          /\ log' = Append(log, Call("DeleteTask", tNames[i], FALSE, NoName, <<>>))
    /\ IF log # <<>> /\ Last(log) = Call("DeleteTask", tNames[i], FALSE, NoName, <<>>)
       THEN pc' = AfterIteration(i) /\ i' = i + 1
       ELSE pc' = pc /\ i' = i
    /\ UNCHANGED <<inputs, tasks, taskRunStore, taskRuns, j, successfulTasks,
                   successfulTaskRuns, stdout, ret>>

\* Tasks(ns).Delete(tName) fails: addPrintErr, continue
DeleteTaskFail ==
    /\ pc = "primary" /\ cmd = "task"
    /\ \E cause \in (IF tNames[i] \in tasks THEN {"forbidden"} ELSE {"notfound"}) :
          /\ AddPrintErr(DeleteErr("task", tNames[i], cause))
          /\ log' = Append(log, Call("DeleteTask", tNames[i], FALSE, NoName, <<>>))
    /\ pc' = AfterIteration(i)
    /\ i' = i + 1
    /\ UNCHANGED <<inputs, tasks, taskRunStore, taskRuns, j, successfulTasks,
                   successfulTaskRuns, stdout, ret>>

\* variant: the TaskRuns are looked up whatever opts.DeleteAll says
DeleteTaskOk_AlwaysCascade ==
    /\ pc = "primary" /\ cmd = "task"
    /\ tNames[i] \in tasks
    /\ tasks' = tasks \ {tNames[i]}
    /\ log' = Append(log, Call("DeleteTask", tNames[i], TRUE, NoName, <<>>))
    /\ successfulTasks' = Append(successfulTasks, tNames[i])
    /\ pc' = "list" /\ i' = i
    /\ UNCHANGED <<inputs, taskRunStore, taskRuns, j, errs, successfulTaskRuns,
                   stdout, stderr, ret>>

\* Tasks(ns).Delete(tName) succeeds: append to successfulTasks; without
\* --all continue, with --all go on to the List
DeleteTaskOk ==
    /\ pc = "primary" /\ cmd = "task"
    /\ tNames[i] \in tasks
    /\ tasks' = tasks \ {tNames[i]}
    /\ log' = Append(log, Call("DeleteTask", tNames[i], TRUE, NoName, <<>>))
    /\ successfulTasks' = Append(successfulTasks, tNames[i])
    /\ IF ~DeleteAll
       THEN pc' = AfterIteration(i) /\ i' = i + 1
       ELSE pc' = "list" /\ i' = i
    /\ UNCHANGED <<inputs, taskRunStore, taskRuns, j, errs, successfulTaskRuns,
                   stdout, stderr, ret>>

\* variant: a failed List is passed over without recording the error
ListFail_NoRecord ==
    /\ pc = "list"
    /\ log' = Append(log, Call("List", LabelSelector(tNames[i]).value, FALSE, tNames[i], <<>>))
    /\ pc' = AfterIteration(i)
    /\ i' = i + 1
    /\ UNCHANGED <<inputs, tasks, taskRunStore, taskRuns, j, errs, stderr,
                   successfulTasks, successfulTaskRuns, stdout, ret>>

\* variant: a failed List takes the Task back out of successfulTasks
ListFail_Revert ==
    /\ pc = "list"
    /\ AddPrintErr(RawErr("listfailed"))
    /\ log' = Append(log, Call("List", LabelSelector(tNames[i]).value, FALSE, tNames[i], <<>>))
    /\ successfulTasks' = SubSeq(successfulTasks, 1, Len(successfulTasks) - 1)
    /\ pc' = AfterIteration(i)
    /\ i' = i + 1
    /\ UNCHANGED <<inputs, tasks, taskRunStore, taskRuns, j,
                   successfulTaskRuns, stdout, ret>>

\* TaskRuns(ns).List(lOpts) fails: addPrintErr(err), continue
ListFail ==
    /\ pc = "list"
    /\ AddPrintErr(RawErr("listfailed"))
    /\ log' = Append(log, Call("List", LabelSelector(tNames[i]).value, FALSE, tNames[i], <<>>))
    /\ pc' = AfterIteration(i)
    /\ i' = i + 1
    /\ UNCHANGED <<inputs, tasks, taskRunStore, taskRuns, j, successfulTasks,
                   successfulTaskRuns, stdout, ret>>

\* TaskRuns(ns).List(lOpts) succeeds: range over taskRuns.Items
ListOk ==
    /\ pc = "list"
    /\ \E items \in Perms({r.name : r \in Matching(LabelSelector(tNames[i]))}) :
          /\ log' = Append(log, Call("List", LabelSelector(tNames[i]).value, TRUE, tNames[i], items))
          /\ IF items = <<>>
             THEN pc' = AfterIteration(i) /\ i' = i + 1 /\ taskRuns' = <<>> /\ j' = 0
             ELSE pc' = "deps" /\ i' = i /\ taskRuns' = items /\ j' = 1
    /\ UNCHANGED <<inputs, tasks, taskRunStore, errs, successfulTasks,
                   successfulTaskRuns, stdout, stderr, ret>>

\* position after element j of the inner loop
AfterItem ==
    IF j + 1 > Len(taskRuns)
    THEN pc' = AfterIteration(i) /\ i' = i + 1 /\ taskRuns' = <<>> /\ j' = 0
    ELSE pc' = "deps" /\ i' = i /\ taskRuns' = taskRuns /\ j' = j + 1

OwnerOf(run) ==
    IF \E r \in taskRunStore : r.name = run
    THEN (CHOOSE r \in taskRunStore : r.name = run).task
    ELSE NoName

\* variant: break instead of continue after a failed TaskRun delete
DeleteTaskRunFail_Break ==
    /\ pc = "deps"
    /\ \E cause \in (IF \E r \in taskRunStore : r.name = taskRuns[j]
                     THEN {"forbidden"} ELSE {"notfound"}) :
          AddPrintErr(DeleteErr("taskrun", taskRuns[j], cause))
    /\ log' = Append(log, Call("DeleteTaskRun", taskRuns[j], FALSE, OwnerOf(taskRuns[j]), <<>>))
    /\ pc' = AfterIteration(i) /\ i' = i + 1 /\ taskRuns' = <<>> /\ j' = 0
    /\ UNCHANGED <<inputs, tasks, taskRunStore, successfulTasks,
                   successfulTaskRuns, stdout, ret>>

\* TaskRuns(ns).Delete(tr.Name) fails: addPrintErr, continue
DeleteTaskRunFail ==
    /\ pc = "deps"
    /\ \E cause \in (IF \E r \in taskRunStore : r.name = taskRuns[j]
                     THEN {"forbidden"} ELSE {"notfound"}) :
          AddPrintErr(DeleteErr("taskrun", taskRuns[j], cause))
    /\ log' = Append(log, Call("DeleteTaskRun", taskRuns[j], FALSE, OwnerOf(taskRuns[j]), <<>>))
    /\ AfterItem
    /\ UNCHANGED <<inputs, tasks, taskRunStore, successfulTasks,
                   successfulTaskRuns, stdout, ret>>

\* TaskRuns(ns).Delete(tr.Name) succeeds: append to successfulTaskRuns
DeleteTaskRunOk ==
    /\ pc = "deps"
    /\ \E r \in taskRunStore : r.name = taskRuns[j]
    /\ taskRunStore' = {r \in taskRunStore : r.name # taskRuns[j]}
    /\ log' = Append(log, Call("DeleteTaskRun", taskRuns[j], TRUE, OwnerOf(taskRuns[j]), <<>>))
    /\ successfulTaskRuns' = Append(successfulTaskRuns, taskRuns[j])
    /\ AfterItem
    /\ UNCHANGED <<inputs, tasks, errs, successfulTasks, stdout, stderr, ret>>

\* variant: the Tasks line is written before the TaskRuns line
Report_Swapped ==
    /\ pc = "report" /\ cmd = "task"
    /\ stdout' = (IF Len(successfulTasks) > 0
                  THEN <<[label |-> "Tasks deleted: ", list |-> QuotedList(successfulTasks)]>>
                  ELSE <<>>)
                 \o
                 (IF Len(successfulTaskRuns) > 0
                  THEN <<[label |-> "TaskRuns deleted: ", list |-> QuotedList(successfulTaskRuns)]>>
                  ELSE <<>>)
    /\ ret' = Combine(errs)
    /\ pc' = "done"
    /\ UNCHANGED <<inputs, tasks, taskRunStore, i, taskRuns, j, errs,
                   successfulTasks, successfulTaskRuns, stderr, log>>

\* the success lines and the return of deleteTask
Report ==
    /\ pc = "report" /\ cmd = "task"
    /\ stdout' = (IF Len(successfulTaskRuns) > 0
                  THEN <<[label |-> "TaskRuns deleted: ", list |-> QuotedList(successfulTaskRuns)]>>
                  ELSE <<>>)
                 \o
                 (IF Len(successfulTasks) > 0
                  THEN <<[label |-> "Tasks deleted: ", list |-> QuotedList(successfulTasks)]>>
                  ELSE <<>>)
    /\ ret' = Combine(errs)
    /\ pc' = "done"
    /\ UNCHANGED <<inputs, tasks, taskRunStore, i, taskRuns, j, errs,
                   successfulTasks, successfulTaskRuns, stderr, log>>

\* TriggerTemplates(ns).Delete(ttName) fails: record, print, continue
DeleteTriggerTemplateFail ==
    /\ pc = "primary" /\ cmd = "triggertemplate"
    /\ \E cause \in (IF tNames[i] \in tasks THEN {"forbidden"} ELSE {"notfound"}) :
          /\ errs' = Append(errs, DeleteErr("triggertemplate", tNames[i], cause))
          /\ stderr' = Append(stderr, DeleteErr("triggertemplate", tNames[i], cause))
    /\ log' = Append(log, Call("DeleteTriggerTemplate", tNames[i], FALSE, NoName, <<>>))
    /\ pc' = AfterIteration(i)
    /\ i' = i + 1
    /\ UNCHANGED <<inputs, tasks, taskRunStore, taskRuns, j, successfulTasks,
                   successfulTaskRuns, stdout, ret>>

\* TriggerTemplates(ns).Delete(ttName) succeeds: append to success
DeleteTriggerTemplateOk ==
    /\ pc = "primary" /\ cmd = "triggertemplate"
    /\ tNames[i] \in tasks
    /\ tasks' = tasks \ {tNames[i]}
    /\ log' = Append(log, Call("DeleteTriggerTemplate", tNames[i], TRUE, NoName, <<>>))
    /\ successfulTasks' = Append(successfulTasks, tNames[i])
    /\ pc' = AfterIteration(i)
    /\ i' = i + 1
    /\ UNCHANGED <<inputs, taskRunStore, taskRuns, j, errs, successfulTaskRuns,
                   stdout, stderr, ret>>

\* the success line and the return of deleteTriggerTemplates
ReportTriggerTemplates ==
    /\ pc = "report" /\ cmd = "triggertemplate"
    /\ stdout' = (IF Len(successfulTasks) > 0
                  THEN <<[label |-> "TriggerTemplates deleted: ", list |-> QuotedList(successfulTasks)]>>
                  ELSE <<>>)
    /\ ret' = Combine(errs)
    /\ pc' = "done"
    /\ UNCHANGED <<inputs, tasks, taskRunStore, i, taskRuns, j, errs,
                   successfulTasks, successfulTaskRuns, stderr, log>>

Next ==
    \/ GetClients
    \/ DeleteTaskFail
    \/ DeleteTaskOk
    \/ ListFail
    \/ ListOk
    \/ DeleteTaskRunFail
    \/ DeleteTaskRunOk
    \/ Report
    \/ DeleteTriggerTemplateFail
    \/ DeleteTriggerTemplateOk
    \/ ReportTriggerTemplates

Spec == Init /\ [][Next]_vars

\* ------------------------------------------------------------ reading the log
IsPrimaryCall(c) == c.op \in {"DeleteTask", "DeleteTriggerTemplate"}
IsOkPrimaryCall(c) == IsPrimaryCall(c) /\ c.ok
IsFailedPrimaryCall(c) == IsPrimaryCall(c) /\ ~c.ok
IsDependentCall(c) == c.op = "DeleteTaskRun"
IsOkDependentCall(c) == IsDependentCall(c) /\ c.ok
IsListCall(c) == c.op = "List"
IsPrimaryDeleteErr(e) == e.msg = "failed to delete %q: %s" /\ e.kind \in {"task", "triggertemplate"}

NamesOf(calls) == [k \in 1..Len(calls) |-> calls[k].name]
PrimaryCalls == SelectSeq(log, IsPrimaryCall)
DependentCalls == SelectSeq(log, IsDependentCall)
AllOk == \A k \in 1..Len(log) : log[k].ok
Finished == pc = "done" /\ clientOk

\* number of positions of s that hold x
Count(s, x) == Cardinality({k \in 1..Len(s) : s[k] = x})

RECURSIVE SumItems(_)
SumItems(calls) ==
    IF calls = <<>> THEN 0
    ELSE (IF IsListCall(calls[1]) /\ calls[1].ok THEN Len(calls[1].items) ELSE 0)
         + SumItems(Tail(calls))

\* the names of a rendered list: the token after every opening quote
Unquote(tokens) == [k \in 1..((Len(tokens) + 1) \div 4) |-> tokens[4 * k - 2]]

\* index of the last primary delete before position k of the log (0: none)
LastPrimaryBefore(k) ==
    IF \E m \in 1..(k - 1) : IsPrimaryCall(log[m])
    THEN CHOOSE m \in 1..(k - 1) :
            IsPrimaryCall(log[m]) /\ \A n \in (m + 1)..(k - 1) : ~IsPrimaryCall(log[n])
    ELSE 0

\* the success lines the calls of the log call for
ExpectedLines ==
    (IF \E k \in 1..Len(log) : IsOkDependentCall(log[k])
     THEN <<[label |-> "TaskRuns deleted: ",
             names |-> NamesOf(SelectSeq(log, IsOkDependentCall))]>>
     ELSE <<>>)
    \o
    (IF \E k \in 1..Len(log) : IsOkPrimaryCall(log[k])
     THEN <<[label |-> IF cmd = "task" THEN "Tasks deleted: " ELSE "TriggerTemplates deleted: ",
             names |-> NamesOf(SelectSeq(log, IsOkPrimaryCall))]>>
     ELSE <<>>)

PrintedLines == [k \in 1..Len(stdout) |-> [label |-> stdout[k].label, names |-> Unquote(stdout[k].list)]]

\* ------------------------------------------------------------ claims

\* C1: no early abort. At the end of a run the primary delete calls are the
\* arguments, one per position and in their order; there is one delete
\* failure entry per failed primary call; the successful names are the
\* arguments without the failed positions, in order; and without cascade and
\* without failure everything succeeded, no dependent is reported and the
\* returned error is nil.
C1_NoEarlyAbort ==
    Finished =>
        /\ NamesOf(PrimaryCalls) = tNames
        /\ Len(SelectSeq(errs, IsPrimaryDeleteErr)) = Len(SelectSeq(PrimaryCalls, IsFailedPrimaryCall))
        /\ successfulTasks = NamesOf(SelectSeq(PrimaryCalls, IsOkPrimaryCall))
        /\ (~DeleteAll /\ \A k \in 1..Len(PrimaryCalls) : PrimaryCalls[k].ok)
              => /\ successfulTasks = tNames
                 /\ successfulTaskRuns = <<>>
                 /\ ret = <<>>

\* a run in which a primary delete failed and a later one succeeded
C1_Witness ==
    /\ Finished
    /\ \E k, m \in 1..Len(log) :
          k < m /\ IsFailedPrimaryCall(log[k]) /\ IsOkPrimaryCall(log[m])

\* C2: at the end of a run that obtained the client the returned error is nil
\* exactly when every call of the run succeeded, and a non-nil error comes
\* with the success lines of everything that was deleted.
C2_CombinedErrorIffFailure ==
    Finished =>
        /\ (ret = <<>>) <=> AllOk
        /\ ret # <<>> => PrintedLines = ExpectedLines

\* a run that returns an error and reports a deleted primary and a deleted dependent
C2_Witness ==
    /\ Finished
    /\ ret # <<>>
    /\ Len(stdout) = 2

\* C3: a List or a TaskRun delete happens only with --all and only for the
\* primary whose delete is the last primary delete before it and succeeded;
\* without --all there is no List and no dependent is ever reported.
C3_CascadeGated ==
    /\ \A k \in 1..Len(log) :
          (IsListCall(log[k]) \/ IsDependentCall(log[k])) =>
              /\ DeleteAll
              /\ LastPrimaryBefore(k) # 0
              /\ log[LastPrimaryBefore(k)].ok
              /\ log[LastPrimaryBefore(k)].name = log[k].owner
    /\ ~DeleteAll =>
          /\ \A k \in 1..Len(log) : IsPrimaryCall(log[k])
          /\ successfulTaskRuns = <<>>

\* without --all a Task that has TaskRuns was deleted and the run ended
C3_Witness ==
    /\ pc = "done" /\ cmd = "task" /\ ~DeleteAll
    /\ \E k \in 1..Len(log) :
          log[k].ok /\ \E r \in taskRunStore : r.task = log[k].name

\* C4: the step in which the List for p fails keeps p in successfulTasks,
\* records exactly one more error, and goes on with the next argument (or the
\* report): the call after a failed List is never a TaskRun delete.
C4_LookupFailure ==
    [][ /\ (pc = "list" /\ log' # log /\ ~Last(log').ok) =>
              /\ successfulTasks' = successfulTasks
              /\ Last(successfulTasks') = tNames[i]
              /\ Len(errs') = Len(errs) + 1
              /\ i' = i + 1
              /\ pc' = (IF i < Len(tNames) THEN "primary" ELSE "report")
        /\ (log # <<>> /\ IsListCall(Last(log)) /\ ~Last(log).ok /\ log' # log) =>
              IsPrimaryCall(Last(log'))
      ]_vars

\* a failed List followed by the delete of the next argument
C4_Witness ==
    \E k \in 1..(Len(log) - 1) :
        /\ IsListCall(log[k]) /\ ~log[k].ok
        /\ IsPrimaryCall(log[k + 1])
        /\ \E m \in 1..Len(successfulTasks) : successfulTasks[m] = log[k].name

\* C5: every recorded failure names the kind and the name of the resource it
\* is about and the cause, the failure of a List included.
C5_FailureHasContext ==
    \A k \in 1..Len(errs) :
        /\ errs[k].kind # NoName
        /\ errs[k].name # NoName
        /\ errs[k].cause # NoName

\* C6: nothing is written to s.Out before the run ends; at the end there is
\* one line per non-empty category, TaskRuns before Tasks, each listing the
\* names in the order in which their deletes succeeded.
C6_SuccessReport ==
    /\ pc # "done" => stdout = <<>>
    /\ Finished => PrintedLines = ExpectedLines

\* a run that ends with both lines, two TaskRuns in the first
C6_Witness ==
    /\ Finished
    /\ Len(stdout) = 2
    /\ Len(successfulTaskRuns) = 2

\* C7: when the client cannot be obtained the run returns an error at once:
\* no call reaches the store, nothing is recorded or printed and the store
\* keeps its content.
C7_ClientFailure ==
    /\ [](~clientOk =>
             /\ log = <<>> /\ errs = <<>> /\ stdout = <<>> /\ stderr = <<>>
             /\ pc \in {"start", "done"}
             /\ pc = "done" => ret # <<>>)
    /\ [][~clientOk => (tasks' = tasks /\ taskRunStore' = taskRunStore)]_vars

\* the run has returned without a client while the namespace holds resources
C7_Witness ==
    /\ ~clientOk /\ pc = "done"
    /\ tasks # {} /\ \E k \in 1..Len(tNames) : tNames[k] \in tasks

\* C8: after a successful List the next calls are the deletes of the
\* returned TaskRuns, all of them and in the returned order, whatever their
\* results; the next primary delete comes only after them.
C8_CascadeOrdering ==
    \A k \in 1..Len(log) :
        (IsListCall(log[k]) /\ log[k].ok) =>
            /\ \A t \in 1..Len(log[k].items) :
                  (k + t <= Len(log)) =>
                      /\ IsDependentCall(log[k + t])
                      /\ log[k + t].name = log[k].items[t]
            /\ (pc \in {"primary", "report", "done"}) => k + Len(log[k].items) <= Len(log)

\* two TaskRuns returned, the delete of the first failed, the second was
\* attempted and the next argument followed
C8_Witness ==
    \E k \in 1..Len(log) :
        /\ IsListCall(log[k]) /\ Len(log[k].items) = 2
        /\ k + 3 <= Len(log)
        /\ ~log[k + 1].ok
        /\ IsPrimaryCall(log[k + 3])

\* C9 as stated: one primary delete per argument, one dependent delete per
\* returned name, and a target whose delete failed is not attempted again.
C9_Original ==
    Finished =>
        /\ Len(PrimaryCalls) = Len(tNames)
        /\ Len(DependentCalls) = SumItems(log)
        /\ \A k, m \in 1..Len(log) :
              (k < m /\ ~log[k].ok /\ ~IsListCall(log[k]))
                  => ~(log[m].op = log[k].op /\ log[m].name = log[k].name)

\* C9 amended: every name is attempted exactly as often as it is given (a
\* failed delete is repeated only for a later occurrence of the name) and
\* one dependent delete is made per returned name.
C9_OneAttemptPerPosition ==
    Finished =>
        /\ \A n \in TaskNames : Count(NamesOf(PrimaryCalls), n) = Count(tNames, n)
        /\ Len(DependentCalls) = SumItems(log)

\* a name given twice whose first delete failed and which was attempted again
C9_Witness ==
    /\ Finished
    /\ \E k, m \in 1..Len(log) :
          k < m /\ IsFailedPrimaryCall(log[k]) /\ IsPrimaryCall(log[m])
          /\ log[m].name = log[k].name
    /\ \E k \in 1..Len(log) : IsDependentCall(log[k]) /\ ~log[k].ok

\* the primaries named in the "Tasks deleted" line
ReportedTasks ==
    UNION {{Unquote(stdout[k].list)[m] : m \in 1..Len(Unquote(stdout[k].list))} :
              k \in {x \in 1..Len(stdout) : stdout[x].label = "Tasks deleted: "}}

\* p was deleted before the call at position k of the log
DeletedBefore(p, k) == \E m \in 1..(k - 1) : IsOkPrimaryCall(log[m]) /\ log[m].name = p

OrphansOf(p) == {r \in taskRunStore : r.task = p}

\* C10 as stated: the delete of p precedes the List and the TaskRun deletes
\* for p, and whenever the List or a TaskRun delete for p failed the run ends
\* with p removed, TaskRuns labelled with p left behind and p reported.
C10_Original ==
    /\ \A k \in 1..Len(log) :
          (IsListCall(log[k]) \/ IsDependentCall(log[k])) => DeletedBefore(log[k].owner, k)
    /\ Finished =>
          \A k \in 1..Len(log) :
              ((IsListCall(log[k]) \/ IsDependentCall(log[k])) /\ ~log[k].ok) =>
                  /\ log[k].owner \notin tasks
                  /\ OrphansOf(log[k].owner) # {}
                  /\ log[k].owner \in ReportedTasks

\* C10 amended: the same, except that after a failed List for p no TaskRun
\* of p is attempted at all, so that the TaskRuns labelled with p, if there
\* are any, are all left behind.
C10_ParentFirst ==
    /\ \A k \in 1..Len(log) :
          (IsListCall(log[k]) \/ IsDependentCall(log[k])) => DeletedBefore(log[k].owner, k)
    /\ Finished =>
          \A k \in 1..Len(log) :
              /\ ((IsListCall(log[k]) \/ IsDependentCall(log[k])) /\ ~log[k].ok) =>
                    /\ log[k].owner \notin tasks
                    /\ log[k].owner \in ReportedTasks
              /\ (IsDependentCall(log[k]) /\ ~log[k].ok) => OrphansOf(log[k].owner) # {}
              /\ (IsListCall(log[k]) /\ ~log[k].ok) =>
                    \A m \in 1..Len(log) : IsDependentCall(log[m]) => log[m].owner # log[k].owner

\* a failed List for a Task with TaskRuns and a failed TaskRun delete, in one run
C10_Witness ==
    /\ Finished
    /\ \E k \in 1..Len(log) :
          IsListCall(log[k]) /\ ~log[k].ok /\ OrphansOf(log[k].owner) # {}
    /\ \E k \in 1..Len(log) : IsDependentCall(log[k]) /\ ~log[k].ok

TypeOK ==
    /\ pc \in {"start", "primary", "list", "deps", "report", "done"}
    /\ i \in 0..(Len(tNames) + 1)
    /\ j \in 0..Len(taskRuns)
====
